---- MODULE Spec2Model ----
(***************************************************************************)
(* Model of the motive build tooling:                                      *)
(*   src/build.py, src/motive/build.py  - library resolution, shader       *)
(*       compilation, parallel source compilation, archive and link;       *)
(*   src/build_deps.py, src/getReqs.py  - dependency bootstrap.            *)
(*                                                                         *)
(* Strings that the code takes apart (library file names, cache sonames)   *)
(* are sequences of one-character strings; strings it only passes around   *)
(* are TLA+ strings.                                                       *)
(***************************************************************************)
EXTENDS Integers, Sequences, FiniteSets, TLC

VARIABLES
    \* ---- the host as seen by resolve_library (build.py)
    env,
    \* ---- resolve_library / collect_link_args applied on their own
    lib_name, arg, required_libs, optional_libs, link, rpc,
    \* ---- one run of build.py or motive/build.py
    script,             \* which of the two scripts runs
    listing,            \* os.listdir(this_dir)
    shader_todo,        \* the part of os.listdir(shader_dir) not yet visited
    pc,                 \* where the main thread is
    library_link_args,  \* the resolved link-argument list
    futures,            \* the worker pool's tasks, in submission order
    link_i,             \* the index of the next executable to link
    cmds,               \* the commands the main thread has run, with their status
    printed,            \* the messages the main thread has printed
    exit_code,          \* the process's exit status once pc = "exited"
    \* ---- runs of build_deps.py or getReqs.py, one after the other
    dscript,            \* which of the two scripts runs
    host,               \* what the host provides (packages, tools, headers)
    tree,               \* each dependency's working tree: absent, tracking, detached
    disk,               \* the build artifacts on disk
    run,                \* the number of the current run
    start_tree,         \* tree when the current run started
    start_disk,         \* disk when the current run started
    dpc,                \* where the current run is
    dcmds,              \* the commands the current run has issued, with their status
    dprinted,           \* the messages the current run has printed
    dexit,              \* the run's exit status once dpc is "done" or "exited"
    probe,              \* the host facts determine_hwaccel_flags is called on
    hwaccel,            \* what determine_hwaccel_flags returned
    hpc,                \* "call" before the call, "returned" after it
    pkg_queries         \* the pkg-config invocations the call made

rvars == <<lib_name, arg, required_libs, optional_libs, link, rpc>>
pvars == <<script, listing, shader_todo, pc, library_link_args, futures, link_i,
           cmds, printed, exit_code>>
dvars == <<dscript, host, tree, disk, run, start_tree, start_disk, dpc, dcmds,
           dprinted, dexit>>
hvars == <<probe, hwaccel, hpc, pkg_queries>>
vars == <<env, rvars, pvars, dvars, hvars>>

\* ------------------------------------------------------------------------
\* Strings
\* ------------------------------------------------------------------------

StartsWith(s, p) == Len(s) >= Len(p) /\ SubSeq(s, 1, Len(p)) = p

Drop(s, n) == SubSeq(s, n + 1, Len(s))

Range(q) == { q[i] : i \in 1..Len(q) }

Digits == {"0", "1", "2", "3", "4", "5", "6", "7", "8", "9"}

Letters == {"a", "b", "c", "d", "g", "i", "l", "m", "n", "o", "p", "s", "t", "u", "z"}

\* \w and '-' of the pattern lib<name>[\w\-]*\.so
IsWordOrDash(c) == c \in Letters \cup Digits \cup {"_", "-"}

DotSo == <<".", "s", "o">>

DotA == <<".", "a">>

\* The characters of the library names the model resolves.
Chars(name) ==
    CASE name = "z" -> <<"z">>
      [] name = "m" -> <<"m">>
      [] name = "dl" -> <<"d", "l">>
      [] name = "ssl" -> <<"s", "s", "l">>
      [] name = "png" -> <<"p", "n", "g">>

\* f"lib{lib_name}"
LibPrefix(name) == <<"l", "i", "b">> \o Chars(name)

\* f"lib{lib_name}{ext}"
LibFile(name, ext) == LibPrefix(name) \o ext

\* os.path.join(base, file): a path is a directory and a file name.
Path(base, file) == [dir |-> base, file |-> file]

\* ------------------------------------------------------------------------
\* resolve_library (build.py)
\* ------------------------------------------------------------------------

\* The link arguments resolve_library returns.
None == [kind |-> "none", dir |-> "", file |-> <<>>]

FlagArg(name) == [kind |-> "flag", dir |-> "", file |-> <<"-", "l">> \o Chars(name)]

PathArg(p) == [kind |-> "path", dir |-> p.dir, file |-> p.file]

\* os.path.abspath(os.path.join(this_dir, rel)): the directory under the
\* root the script lies in.
abspath(rel) ==
    CASE rel = "Vulkan-Headers/lib" -> "/repo/Vulkan-Headers/lib"
      [] rel = "glfw/build/src" -> "/repo/glfw/build/src"
      [] rel = "FFmpeg/.ffmpeg/lib" -> "/repo/FFmpeg/.ffmpeg/lib"

\* os.path.isabs: the directories of the model that start with "/".
isabs(d) ==
    d \in {"/repo/Vulkan-Headers/lib", "/repo/glfw/build/src", "/repo/FFmpeg/.ffmpeg/lib",
           "/usr/lib", "/stale"}

\* Directories searched explicitly, in declared order (build.py lib_paths).
lib_paths == <<abspath("Vulkan-Headers/lib"), abspath("glfw/build/src"), abspath("FFmpeg/.ffmpeg/lib")>>

\* Tier 2 with the static archive preferred across all directories.
Tier2From_static_first(e, name, i) ==
    LET has(j, ext) == Path(lib_paths[j], LibFile(name, ext)) \in e.exists
        first(ext) == CHOOSE j \in i..Len(lib_paths) :
                          has(j, ext) /\ \A k \in i..(j - 1) : ~has(k, ext)
    IN  IF \E j \in i..Len(lib_paths) : has(j, <<".", "a">>)
        THEN [kind |-> "path", dir |-> lib_paths[first(<<".", "a">>)],
              file |-> LibFile(name, <<".", "a">>)]
        ELSE IF \E j \in i..Len(lib_paths) : has(j, <<".", "s", "o">>)
        THEN [kind |-> "path", dir |-> lib_paths[first(<<".", "s", "o">>)],
              file |-> LibFile(name, <<".", "s", "o">>)]
        ELSE [kind |-> "none", dir |-> "", file |-> <<>>]

\* Tier 1: g++ -print-file-name=lib<name><ext>, for ".so" then ".a".
\* e.gxx[<<name, ext>>] is the path g++ prints (dir "" with the file name
\* itself when it finds nothing; file <<>> when it prints nothing).
Tier1Hit(e, name, ext) ==
    LET path == e.gxx[<<name, ext>>] IN
        /\ path.file # <<>>
        /\ path # Path("", LibFile(name, ext))
        /\ path \in e.exists

Tier1(e, name) ==
    IF Tier1Hit(e, name, DotSo) \/ Tier1Hit(e, name, DotA)
    THEN FlagArg(name) ELSE None

\* Tier 2: the first base of lib_paths holding lib<name>.a or lib<name>.so.
RECURSIVE Tier2From(_, _, _)
Tier2From(e, name, i) ==
    IF i > Len(lib_paths) THEN None
    ELSE IF Path(lib_paths[i], LibFile(name, DotA)) \in e.exists
         THEN PathArg(Path(lib_paths[i], LibFile(name, DotA)))
    ELSE IF Path(lib_paths[i], LibFile(name, DotSo)) \in e.exists
         THEN PathArg(Path(lib_paths[i], LibFile(name, DotSo)))
    ELSE Tier2From(e, name, i + 1)

Tier2(e, name) == Tier2From(e, name, 1)

\* pattern.search(soname) for lib<name>[\w\-]*\.so : a match may start at
\* any position of the soname.
PatternSearch(name, soname) ==
    \E i \in 1..Len(soname) :
        LET rest == Drop(soname, i - 1)
            n == Len(LibPrefix(name))
        IN  /\ StartsWith(rest, LibPrefix(name))
            /\ \E j \in n..Len(rest) :
                  /\ \A k \in (n + 1)..j : IsWordOrDash(rest[k])
                  /\ StartsWith(Drop(rest, j), DotSo)

\* The checks of one line of `ldconfig -p` (build.py lines 109-122).
SuffixOk(name, soname) ==
    LET suffix == Drop(soname, Len(LibPrefix(name))) IN
        ~(suffix # <<>> /\ suffix[1] \notin ({"."} \cup Digits))

LineMatches(name, line) ==
    /\ line.arrow
    /\ StartsWith(line.soname, LibPrefix(name))
    /\ SuffixOk(name, line.soname)
    /\ PatternSearch(name, line.soname)

\* Tier 3: the first line of the linker cache that matches and whose
\* target exists.
RECURSIVE Tier3From(_, _, _)
Tier3From(e, name, i) ==
    IF i > Len(e.cache) THEN None
    ELSE IF LineMatches(name, e.cache[i]) /\ e.cache[i].target \in e.exists
         THEN PathArg(e.cache[i].target)
    ELSE Tier3From(e, name, i + 1)

Tier3(e, name) == IF e.ldconfig THEN Tier3From(e, name, 1) ELSE None

\* resolve_library with the explicit directories asked before the compiler.
resolve_library_dirs_first(e, name) ==
    IF Tier2(e, name) # None THEN Tier2(e, name)
    ELSE IF Tier1(e, name) # None THEN Tier1(e, name)
    ELSE Tier3(e, name)

resolve_library(e, name) ==
    IF Tier1(e, name) # None THEN Tier1(e, name)
    ELSE IF Tier2(e, name) # None THEN Tier2(e, name)
    ELSE Tier3(e, name)

\* ------------------------------------------------------------------------
\* collect_link_args (build.py)
\* ------------------------------------------------------------------------

\* `if arg:` - None is falsy, every returned string is non-empty.
Truthy(a) == a # None

RECURSIVE ResolvedOf(_, _)
ResolvedOf(e, libs) ==
    IF libs = <<>> THEN <<>>
    ELSE LET a == resolve_library(e, Head(libs)) IN
         (IF Truthy(a) THEN <<a>> ELSE <<>>) \o ResolvedOf(e, Tail(libs))

RECURSIVE MissingOf(_, _)
MissingOf(e, libs) ==
    IF libs = <<>> THEN <<>>
    ELSE LET a == resolve_library(e, Head(libs)) IN
         (IF Truthy(a) THEN <<>> ELSE <<Head(libs)>>) \o MissingOf(e, Tail(libs))

\* collect_link_args aborting at the first required library it misses.
collect_link_args_first_missing(e, required, optional) ==
    LET missing_required == MissingOf(e, required)
        missing_optional == MissingOf(e, optional)
    IN  IF missing_required # <<>>
        THEN [exited |-> TRUE, code |-> 1, resolved |-> <<>>,
              printed_missing |-> <<Head(missing_required)>>, printed_skipping |-> <<>>]
        ELSE [exited |-> FALSE, code |-> 0,
              resolved |-> ResolvedOf(e, required) \o ResolvedOf(e, optional),
              printed_missing |-> <<>>, printed_skipping |-> missing_optional]

\* collect_link_args treating a missing optional library like a required one.
collect_link_args_optional_fatal(e, required, optional) ==
    LET missing_required == MissingOf(e, required)
        missing_optional == MissingOf(e, optional)
    IN  IF missing_required \o missing_optional # <<>>
        THEN [exited |-> TRUE, code |-> 1, resolved |-> <<>>,
              printed_missing |-> missing_required \o missing_optional,
              printed_skipping |-> <<>>]
        ELSE [exited |-> FALSE, code |-> 0,
              resolved |-> ResolvedOf(e, required) \o ResolvedOf(e, optional),
              printed_missing |-> <<>>, printed_skipping |-> missing_optional]

\* The outcome of one call: the returned list, what was printed, and the
\* exit code when the call ends the process (exited).
collect_link_args(e, required, optional) ==
    LET missing_required == MissingOf(e, required)
        missing_optional == MissingOf(e, optional)
    IN  IF missing_required # <<>>
        THEN [exited |-> TRUE, code |-> 1, resolved |-> <<>>,
              printed_missing |-> missing_required, printed_skipping |-> <<>>]
        ELSE [exited |-> FALSE, code |-> 0,
              resolved |-> ResolvedOf(e, required) \o ResolvedOf(e, optional),
              printed_missing |-> <<>>, printed_skipping |-> missing_optional]

\* ------------------------------------------------------------------------
\* Hosts for resolve_library and collect_link_args on their own
\* ------------------------------------------------------------------------

Exts == {DotSo, DotA}

\* The library names the resolver is asked for.
ResolveNames == {"z", "ssl"}

CollectRequired == {"m", "dl"}

CollectOptional == {"png", "z"}

AllNames == ResolveNames \cup CollectRequired \cup CollectOptional

\* What g++ -print-file-name=lib<name><ext> can print: nothing, the file
\* name itself, a path that exists, a path that does not.
GxxOutputs(name, ext) ==
    { Path("", <<>>), Path("", LibFile(name, ext)),
      Path("/usr/lib", LibFile(name, ext)), Path("/stale", LibFile(name, ext)) }

GxxBare == [k \in AllNames \X Exts |-> Path("", LibFile(k[1], k[2]))]

\* The files lib<name>.a / lib<name>.so the explicit directories can hold.
Tier2Files(name) ==
    { Path(lib_paths[i], LibFile(name, ext)) : i \in 1..Len(lib_paths), ext \in Exts }

\* What can follow lib<name> in a soname of the linker cache.
SonameTails ==
    { <<>>, DotSo, DotSo \o <<".", "1">>, <<"3">> \o DotSo,
      <<"3", "-", "c", "u", "s", "t", "o", "m">>,
      <<"3", "-", "c", "u", "s", "t", "o", "m">> \o DotSo,
      <<"-", "c", "u", "s", "t", "o", "m">> \o DotSo,
      <<"s", "t", "d">> \o DotSo \o <<".", "1">>,
      <<"_", "a">> \o DotSo }

\* The lines `ldconfig -p` can print about one library name: entries
\* "soname (...) => target" whose target exists or not, a line with no
\* "=>", and an entry of an unrelated library.
CacheLines(name) ==
    { [arrow |-> TRUE, soname |-> LibPrefix(name) \o t, target |-> Path(d, LibPrefix(name) \o t)] :
          t \in SonameTails, d \in {"/usr/lib", "/stale"} }
    \cup { [arrow |-> FALSE, soname |-> LibFile(name, DotSo),
            target |-> Path("/usr/lib", LibFile(name, DotSo))],
           [arrow |-> TRUE, soname |-> <<"l", "i", "b", "c">> \o DotSo,
            target |-> Path("/usr/lib", <<"l", "i", "b", "c">> \o DotSo)] }

\* The longest linker cache of the hosts that vary the cache.
MaxCacheLines == 2

RECURSIVE SeqsUpTo(_, _)
SeqsUpTo(S, n) ==
    IF n = 0 THEN {<<>>}
    ELSE LET shorter == SeqsUpTo(S, n - 1) IN
         shorter \cup { Append(s, x) : s \in { q \in shorter : Len(q) = n - 1 }, x \in S }

\* Every file outside "/stale" that a cache line names exists.
CacheTargets(cache) ==
    { cache[i].target : i \in { j \in 1..Len(cache) : cache[j].target.dir # "/stale" } }

\* A host that varies all three tiers for one library name: what g++
\* prints for each extension, the files of the explicit directories, the
\* files of the working directory, ldconfig and its cache.
TierHost(name, so, a, files, cwd, ld, cache) ==
    [gxx |-> [k \in AllNames \X Exts |->
                IF k = <<name, DotSo>> THEN so
                ELSE IF k = <<name, DotA>> THEN a
                ELSE GxxBare[k]],
     exists |-> { p \in {so, a} : p.dir = "/usr/lib" } \cup cwd
                \cup files \cup CacheTargets(cache),
     ldconfig |-> ld,
     cache |-> cache]

\* The working directory holds lib<name>.so and lib<name>.a, or neither.
CwdFiles(name) == { {}, { Path("", LibFile(name, ext)) : ext \in Exts } }

\* The caches of those hosts: empty, or lib<name>.so.1 with an existing or
\* a missing target.
TierCaches(name) ==
    { <<>>,
      <<[arrow |-> TRUE, soname |-> LibFile(name, DotSo) \o <<".", "1">>,
         target |-> Path("/usr/lib", LibFile(name, DotSo) \o <<".", "1">>)]>>,
      <<[arrow |-> TRUE, soname |-> LibFile(name, DotSo) \o <<".", "1">>,
         target |-> Path("/stale", LibFile(name, DotSo) \o <<".", "1">>)]>> }

\* A host where only the linker cache can answer.
CacheHost(ld, cache) ==
    [gxx |-> GxxBare, exists |-> CacheTargets(cache), ldconfig |-> ld, cache |-> cache]

\* One library's situation on a host where several libraries are resolved:
\* seen by the compiler, present in an explicit directory, only in the
\* linker cache, or nowhere.
Shapes == {"tier1", "tier2", "tier3", "none"}

ShapeLine(name) ==
    [arrow |-> TRUE, soname |-> LibFile(name, DotSo) \o <<".", "1">>,
     target |-> Path("/usr/lib", LibFile(name, DotSo) \o <<".", "1">>)]

RECURSIVE ShapeCache(_, _)
ShapeCache(shape, names) ==
    IF names = <<>> THEN <<>>
    ELSE (IF shape[Head(names)] = "tier3" THEN <<ShapeLine(Head(names))>> ELSE <<>>)
         \o ShapeCache(shape, Tail(names))

\* The host on which each library of `names` is in the situation shape[name].
ShapeHost(shape, names) ==
    LET S == { names[i] : i \in 1..Len(names) } IN
    [gxx |-> [k \in AllNames \X Exts |->
                IF k[1] \in S /\ shape[k[1]] = "tier1" /\ k[2] = DotSo
                THEN Path("/usr/lib", LibFile(k[1], DotSo))
                ELSE GxxBare[k]],
     exists |-> { Path("/usr/lib", LibFile(n, DotSo)) : n \in { m \in S : shape[m] = "tier1" } }
                \cup { Path(lib_paths[2], LibFile(n, DotA)) : n \in { m \in S : shape[m] = "tier2" } }
                \cup { ShapeLine(n).target : n \in { m \in S : shape[m] = "tier3" } },
     ldconfig |-> TRUE,
     cache |-> ShapeCache(shape, names)]

\* The sequences without repetition of at most two names of S.
Arrangements(S) ==
    { <<>> } \cup { <<x>> : x \in S } \cup { p \in S \X S : p[1] # p[2] }

\* The variables of the groups a specification does not use.
PipelineIdle ==
    /\ script = "none"
    /\ listing = <<>>
    /\ shader_todo = <<>>
    /\ pc = "idle"
    /\ library_link_args = <<>>
    /\ futures = <<>>
    /\ link_i = 1
    /\ cmds = <<>>
    /\ printed = <<>>
    /\ exit_code = 0

DepsIdle ==
    /\ dscript = "none"
    /\ host = <<>>
    /\ tree = <<>>
    /\ disk = {}
    /\ run = 1
    /\ start_tree = <<>>
    /\ start_disk = {}
    /\ dpc = "idle"
    /\ dcmds = <<>>
    /\ dprinted = <<>>
    /\ dexit = 0

HwaccelIdle ==
    /\ probe = <<>>
    /\ hwaccel = <<>>
    /\ hpc = "idle"
    /\ pkg_queries = {}

ResolverIdle ==
    /\ lib_name = "z"
    /\ arg = None
    /\ required_libs = <<>>
    /\ optional_libs = <<>>
    /\ link = collect_link_args(env, <<>>, <<>>)
    /\ rpc = "idle"

\* ------------------------------------------------------------------------
\* SpecResolve: resolve_library and collect_link_args applied to hosts
\* ------------------------------------------------------------------------

InitResolveOne ==
    /\ rpc = "resolve"
    /\ lib_name \in ResolveNames
    /\ \/ \E so \in GxxOutputs(lib_name, DotSo), a \in GxxOutputs(lib_name, DotA),
              files \in SUBSET Tier2Files(lib_name), cwd \in CwdFiles(lib_name),
              ld \in BOOLEAN, cache \in TierCaches(lib_name) :
              env = TierHost(lib_name, so, a, files, cwd, ld, cache)
       \/ \E ld \in BOOLEAN, cache \in SeqsUpTo(CacheLines(lib_name), MaxCacheLines) :
              env = CacheHost(ld, cache)
    /\ arg = None
    /\ required_libs = <<>>
    /\ optional_libs = <<>>
    /\ link = collect_link_args(env, <<>>, <<>>)

InitCollect ==
    /\ rpc = "collect"
    /\ lib_name = "z"
    /\ arg = None
    /\ required_libs \in Arrangements(CollectRequired)
    /\ optional_libs \in Arrangements(CollectOptional)
    /\ \E shape \in [CollectRequired \cup CollectOptional -> Shapes] :
          env = ShapeHost(shape, required_libs \o optional_libs)
    /\ link = collect_link_args(env, <<>>, <<>>)

InitResolve == (InitResolveOne \/ InitCollect) /\ PipelineIdle /\ DepsIdle /\ HwaccelIdle

\* arg = resolve_library(lib_name)
Resolve ==
    /\ rpc = "resolve"
    /\ arg' = resolve_library(env, lib_name)
    /\ rpc' = "resolved"
    /\ UNCHANGED <<env, lib_name, required_libs, optional_libs, link, pvars, dvars, hvars>>

\* collect_link_args(required_libs, optional_libs)
Collect ==
    /\ rpc = "collect"
    /\ link' = collect_link_args(env, required_libs, optional_libs)
    /\ rpc' = "collected"
    /\ UNCHANGED <<env, lib_name, arg, required_libs, optional_libs, pvars, dvars, hvars>>

NextResolve == Resolve \/ Collect

SpecResolve == InitResolve /\ [][NextResolve]_vars

\* ------------------------------------------------------------------------
\* Properties of resolve_library and collect_link_args (SpecResolve)
\* ------------------------------------------------------------------------

\* What the host holds for a library, stated on the host alone.
CompilerSees(e, name) ==
    \E ext \in Exts :
        /\ e.gxx[<<name, ext>>].file # <<>>
        /\ e.gxx[<<name, ext>>].dir # ""
        /\ e.gxx[<<name, ext>>] \in e.exists

InDirs(e, name) == Tier2Files(name) \cap e.exists # {}

InCache(e, name) ==
    /\ e.ldconfig
    /\ \E i \in 1..Len(e.cache) : LineMatches(name, e.cache[i]) /\ e.cache[i].target \in e.exists

Findable(e, name) == CompilerSees(e, name) \/ InDirs(e, name) \/ InCache(e, name)

FromDirs(a, name) == a.kind = "path" /\ Path(a.dir, a.file) \in Tier2Files(name)

FromCache(e, a) ==
    /\ a.kind = "path"
    /\ \E i \in 1..Len(e.cache) : PathArg(e.cache[i].target) = a

\* C4: collect_link_args reports exactly the required libraries that
\* resolve_library did not find, every one of them and in declared order,
\* and exits non-zero whenever there is one, whatever the optional
\* libraries do.
C4_MissingRequiredComplete ==
    rpc = "collected" =>
        LET missing == SelectSeq(required_libs, LAMBDA n : ~Findable(env, n)) IN
            /\ link.printed_missing = missing
            /\ missing # <<>> => link.exited /\ link.code # 0

\* Two required libraries are missing and both are named in the abort.
C4_Witness ==
    /\ rpc = "collected"
    /\ Len(required_libs) = 2
    /\ \A n \in Range(required_libs) : ~Findable(env, n)
    /\ \E n \in Range(optional_libs) : Findable(env, n)
    /\ link.exited
    /\ Len(link.printed_missing) = 2

\* C5: when every required library resolves, collect_link_args returns
\* (never aborts) the resolved arguments of the required libraries in
\* declared order, then those of the optional libraries in declared order,
\* each as resolve_library returned it; the unresolved optional libraries
\* are left out and named in the warning only.
C5_LinkListWhenRequiredResolve ==
    (rpc = "collected" /\ \A n \in Range(required_libs) : Findable(env, n)) =>
        LET found == SelectSeq(required_libs \o optional_libs, LAMBDA n : Findable(env, n)) IN
            /\ ~link.exited
            /\ link.resolved = [i \in 1..Len(found) |-> resolve_library(env, found[i])]
            /\ link.printed_skipping = SelectSeq(optional_libs, LAMBDA n : ~Findable(env, n))
            /\ link.printed_missing = <<>>

\* All required resolve, one optional resolves through the linker cache
\* (its path is in the list as the cache gave it), one optional is missing.
C5_Witness ==
    /\ rpc = "collected"
    /\ Len(required_libs) = 2
    /\ ~link.exited
    /\ Len(optional_libs) = 2
    /\ ~Findable(env, optional_libs[1])
    /\ InCache(env, optional_libs[2])
    /\ Len(link.resolved) = 3
    /\ link.resolved[3] = PathArg(ShapeLine(optional_libs[2]).target)
    /\ link.printed_skipping = <<optional_libs[1]>>

\* C6: resolve_library is first-success-wins: the flag -l<name> whenever
\* the compiler sees the library (whatever the directories and the cache
\* hold), a file of the explicit directories only when the compiler does
\* not, a cache path only when neither does, and nothing only when all
\* three tiers fail.
C6_FirstSuccessWins ==
    rpc = "resolved" =>
        /\ CompilerSees(env, lib_name) => arg = FlagArg(lib_name)
        /\ (~CompilerSees(env, lib_name) /\ InDirs(env, lib_name))
              => FromDirs(arg, lib_name) /\ Path(arg.dir, arg.file) \in env.exists
        /\ (~CompilerSees(env, lib_name) /\ ~InDirs(env, lib_name) /\ InCache(env, lib_name))
              => FromCache(env, arg)
        /\ arg = None <=> ~Findable(env, lib_name)

\* The compiler sees the library, the directories and the cache do not
\* hold it, and the result is the flag.
C6_Witness ==
    /\ rpc = "resolved"
    /\ CompilerSees(env, lib_name)
    /\ ~InDirs(env, lib_name)
    /\ ~InCache(env, lib_name)
    /\ arg = FlagArg(lib_name)

\* A version suffix: digits and dots around the ".so" extension.
IsVersionSuffix(suffix) ==
    \E k \in 1..Len(suffix) :
        /\ StartsWith(Drop(suffix, k - 1), DotSo)
        /\ \A i \in (1..Len(suffix)) \ (k..(k + 2)) : suffix[i] \in Digits \cup {"."}

\* C7: a cache entry is accepted only if its name is lib<name> followed
\* only by a version suffix and its path exists; an entry whose suffix
\* starts with neither a digit nor a dot is rejected; "ssl" never resolves
\* to an entry named libssl3-custom.
C7_CacheOnlyVersionSuffix ==
    (rpc = "resolved" /\ ~CompilerSees(env, lib_name) /\ ~InDirs(env, lib_name)
                      /\ arg # None) =>
        \E i \in 1..Len(env.cache) :
            LET line == env.cache[i]
                suffix == Drop(line.soname, Len(LibPrefix(lib_name)))
            IN  /\ PathArg(line.target) = arg
                /\ line.arrow
                /\ line.target \in env.exists
                /\ StartsWith(line.soname, LibPrefix(lib_name))
                /\ IsVersionSuffix(suffix)
                /\ suffix[1] \in Digits \cup {"."}
                /\ ~(lib_name = "ssl" /\ suffix = <<"3", "-", "c", "u", "s", "t", "o", "m">>)

\* The part of C7 the code keeps: the suffix of an accepted entry starts
\* with a digit or a dot, and the entry's path exists.
C7_SuffixLead ==
    (rpc = "resolved" /\ ~CompilerSees(env, lib_name) /\ ~InDirs(env, lib_name)
                      /\ arg # None) =>
        \E i \in 1..Len(env.cache) :
            LET line == env.cache[i]
                suffix == Drop(line.soname, Len(LibPrefix(lib_name)))
            IN  /\ PathArg(line.target) = arg
                /\ line.arrow
                /\ line.target \in env.exists
                /\ StartsWith(line.soname, LibPrefix(lib_name))
                /\ suffix # <<>>
                /\ suffix[1] \in Digits \cup {"."}
                /\ ~(lib_name = "ssl" /\ suffix = <<"3", "-", "c", "u", "s", "t", "o", "m">>)

\* The explicit directory i holds lib<name>.a or lib<name>.so.
DirHolds(e, name, i) ==
    \E ext \in Exts : Path(lib_paths[i], LibFile(name, ext)) \in e.exists

\* C20: when the compiler does not see the library and an explicit
\* directory holds it, the result is the file in the first such directory
\* in declared order, the '.a' when that directory has both, and the path
\* is absolute.
C20_Tier2Order ==
    (rpc = "resolved" /\ ~CompilerSees(env, lib_name) /\ InDirs(env, lib_name)) =>
        LET first == CHOOSE i \in 1..Len(lib_paths) :
                         /\ DirHolds(env, lib_name, i)
                         /\ \A j \in 1..(i - 1) : ~DirHolds(env, lib_name, j)
            ext == IF Path(lib_paths[first], LibFile(lib_name, DotA)) \in env.exists
                   THEN DotA ELSE DotSo
        IN  /\ arg = PathArg(Path(lib_paths[first], LibFile(lib_name, ext)))
            /\ isabs(arg.dir)

\* The first directory holds only the shared object, the second the static
\* archive: the shared object of the first directory is the result.
C20_Witness ==
    /\ rpc = "resolved"
    /\ ~CompilerSees(env, lib_name)
    /\ Path(lib_paths[1], LibFile(lib_name, DotSo)) \in env.exists
    /\ Path(lib_paths[1], LibFile(lib_name, DotA)) \notin env.exists
    /\ Path(lib_paths[2], LibFile(lib_name, DotA)) \in env.exists
    /\ arg = PathArg(Path(lib_paths[1], LibFile(lib_name, DotSo)))

\* ------------------------------------------------------------------------
\* The build pipeline (build.py, motive/build.py)
\* ------------------------------------------------------------------------

Scripts == {"build.py", "motive/build.py"}

\* A file name is its stem and its extension (os.path.splitext).
File(stem, ext) == [stem |-> stem, ext |-> ext]

\* The files the source directory can hold.
SourceDirFiles ==
    { File("engine", "cpp"), File("motive3d", "cpp"), File("main", "cpp"),
      File("domain", "cpp"), File("engine", "h") }

\* The files the shader directory can hold.
ShaderDirFiles == { File("tri", "vert"), File("blur", "comp"), File("notes", "txt") }

\* The longest directory listings.
MaxListing == 2

MaxShaders == 2

\* The listings of a directory: its files in any order, none twice.
Listings(S, n) == { q \in SeqsUpTo(S, n) : \A i, j \in 1..Len(q) : i # j => q[i] # q[j] }

\* The exit statuses of the external commands (glslangValidator, ar, the
\* linking g++), and those of the compiling g++.
RC == {0, 1, 2}

CompileRC == {0, 1}

\* The characters of the stems and extensions of the source files.
Spell(word) ==
    CASE word = "engine" -> <<"e", "n", "g", "i", "n", "e">>
      [] word = "motive3d" -> <<"m", "o", "t", "i", "v", "e", "3", "d">>
      [] word = "motive2d" -> <<"m", "o", "t", "i", "v", "e", "2", "d">>
      [] word = "main" -> <<"m", "a", "i", "n">>
      [] word = "domain" -> <<"d", "o", "m", "a", "i", "n">>
      [] word = "cpp" -> <<"c", "p", "p">>
      [] word = "h" -> <<"h">>

\* The file name as the listing gives it.
FileName(f) == Spell(f.stem) \o <<".">> \o Spell(f.ext)

\* sub in s
Contains(s, sub) ==
    \E i \in 0..(Len(s) - Len(sub)) : SubSeq(s, i + 1, i + Len(sub)) = sub

\* "main" in file
ContainsMain(f) == Contains(FileName(f), Spell("main"))

\* file.endswith(".cpp") and "main" not in file
IsLibrarySource(f) == f.ext = "cpp" /\ ~ContainsMain(f)

so_sources == SelectSeq(listing, IsLibrarySource)

main_sources ==
    IF script = "build.py"
    THEN <<File("motive3d", "cpp"), File("motive2d", "cpp")>>
    ELSE <<File("main", "cpp")>>

\* f"{os.path.splitext(f)[0]}.o"
ObjectOf(f) == File(f.stem, "o")

so_objects == [i \in 1..Len(so_sources) |-> ObjectOf(so_sources[i])]

main_objects == [i \in 1..Len(main_sources) |-> ObjectOf(main_sources[i])]

all_sources == so_sources \o main_sources

\* The library lists of build.py (a part of each, in declared order).
core_libraries == <<"m", "dl">>

optional_libraries == <<"z">>

\* The library list of motive/build.py (a part of it, in declared order).
libraries == <<"png", "m", "dl", "z">>

\* lib_links of motive/build.py: -l<lib> for every library, unresolved.
motive_lib_links == [i \in 1..Len(libraries) |-> FlagArg(libraries[i])]

\* The extensions the shader loop compiles.
ShaderExts == IF script = "build.py" THEN {"vert", "frag", "comp"} ELSE {"vert", "frag"}

\* ThreadPoolExecutor(): at least five workers (min(32, cpu_count + 4)).
max_workers == 5

ObjArg(f) == [kind |-> "obj", dir |-> "", file |-> <<f.stem, ".", f.ext>>]

EngineArg == [kind |-> "flag", dir |-> "", file |-> <<"-", "l", "e", "n", "g", "i", "n", "e">>]

\* A command the main thread ran: the program, its arguments, its status.
Cmd(prog, args, rc) == [prog |-> prog, args |-> args, rc |-> rc]

\* sys.exit(code), from the main thread
Exit(code) ==
    /\ pc' = "exited"
    /\ exit_code' = code

\* library_link_args = collect_link_args(core_libraries, optional_libraries)
\* (build.py line 159; motive/build.py has no such step)
CollectLinkArgs ==
    /\ pc = "collect"
    /\ LET r == collect_link_args(env, core_libraries, optional_libraries) IN
        IF r.exited
        THEN /\ Exit(r.code)
             /\ printed' = Append(printed, <<"Missing required libraries", r.printed_missing>>)
             /\ UNCHANGED library_link_args
        ELSE /\ pc' = "shaders"
             /\ library_link_args' = r.resolved
             /\ printed' = IF r.printed_skipping # <<>>
                           THEN Append(printed, <<"Skipping missing libraries", r.printed_skipping>>)
                           ELSE printed
             /\ UNCHANGED exit_code
    /\ UNCHANGED <<env, rvars, dvars, hvars, script, listing, shader_todo, futures, link_i, cmds>>

\* The shader loop on a file whose extension is not a shader's: continue.
SkipShader ==
    /\ pc = "shaders"
    /\ shader_todo # <<>>
    /\ Head(shader_todo).ext \notin ShaderExts
    /\ shader_todo' = Tail(shader_todo)
    /\ UNCHANGED <<env, rvars, dvars, hvars, script, listing, pc, library_link_args, futures, link_i,
                   cmds, printed, exit_code>>

\* The shader loop keeps going after a failed glslangValidator.
CompileShader_keep_going(rc) ==
    /\ pc = "shaders"
    /\ shader_todo # <<>>
    /\ Head(shader_todo).ext \in ShaderExts
    /\ cmds' = Append(cmds, Cmd("glslangValidator", <<Head(shader_todo)>>, rc))
    /\ shader_todo' = Tail(shader_todo)
    /\ UNCHANGED <<pc, exit_code, printed>>
    /\ UNCHANGED <<env, rvars, dvars, hvars, script, listing, library_link_args, futures, link_i>>

\* The shader loop on a shader: glslangValidator ends with status rc.
CompileShader(rc) ==
    /\ pc = "shaders"
    /\ shader_todo # <<>>
    /\ Head(shader_todo).ext \in ShaderExts
    /\ cmds' = Append(cmds, Cmd("glslangValidator", <<Head(shader_todo)>>, rc))
    /\ IF rc # 0
       THEN /\ Exit(rc)
            /\ printed' = Append(printed, <<"Failed to compile shader", <<Head(shader_todo)>>>>)
            /\ UNCHANGED shader_todo
       ELSE /\ shader_todo' = Tail(shader_todo)
            /\ UNCHANGED <<pc, exit_code, printed>>
    /\ UNCHANGED <<env, rvars, dvars, hvars, script, listing, library_link_args, futures, link_i>>

\* The shader loop ends.
ShadersDone ==
    /\ pc = "shaders"
    /\ shader_todo = <<>>
    /\ pc' = "compile"
    /\ printed' = Append(printed, <<"Shaders compiled successfully", <<>>>>)
    /\ UNCHANGED <<env, rvars, dvars, hvars, script, listing, shader_todo, library_link_args, futures,
                   link_i, cmds, exit_code>>

\* executor.map(compile_cpp_to_o, all_sources): every source is submitted
\* at once; the iterator map returns is dropped.
Submit ==
    /\ pc = "compile"
    /\ futures' = [i \in 1..Len(all_sources) |->
                     [src |-> all_sources[i], st |-> "queued", rc |-> 0]]
    /\ pc' = "join"
    /\ UNCHANGED <<env, rvars, dvars, hvars, script, listing, shader_todo, library_link_args, link_i,
                   cmds, printed, exit_code>>

Running == { i \in 1..Len(futures) : futures[i].st = "running" }

\* A worker takes the oldest queued task and starts its g++ -c.
StartCompile(i) ==
    /\ pc = "join"
    /\ futures[i].st = "queued"
    /\ \A j \in 1..(i - 1) : futures[j].st # "queued"
    /\ Cardinality(Running) < max_workers
    /\ futures' = [futures EXCEPT ![i].st = "running"]
    /\ UNCHANGED <<env, rvars, dvars, hvars, script, listing, shader_todo, pc, library_link_args, link_i,
                   cmds, printed, exit_code>>

\* compile_cpp_to_o ends in its worker: g++ ended with status rc. On a
\* non-zero status it raises SystemExit(rc), which the pool stores in the
\* task's future; nothing reads the future.
FinishCompile(i, rc) ==
    /\ pc = "join"
    /\ futures[i].st = "running"
    /\ futures' = [futures EXCEPT ![i].st = IF rc = 0 THEN "returned" ELSE "raised",
                                  ![i].rc = rc]
    /\ UNCHANGED <<env, rvars, dvars, hvars, script, listing, shader_todo, pc, library_link_args, link_i,
                   cmds, printed, exit_code>>

AllTasksOver == \A i \in 1..Len(futures) : futures[i].st \in {"returned", "raised"}

\* The with-block is left without waiting for the tasks.
Join_no_wait ==
    /\ pc = "join"
    /\ pc' = "archive"
    /\ UNCHANGED <<env, rvars, dvars, hvars, script, listing, shader_todo, library_link_args, futures,
                   link_i, cmds, printed, exit_code>>

\* The end of the `with ThreadPoolExecutor()` block: shutdown(wait=True).
Join ==
    /\ pc = "join"
    /\ AllTasksOver
    /\ pc' = "archive"
    /\ UNCHANGED <<env, rvars, dvars, hvars, script, listing, shader_todo, library_link_args, futures,
                   link_i, cmds, printed, exit_code>>

\* The link stage goes on after a failed ar.
Archive_ignore_failure(rc) ==
    /\ pc = "archive"
    /\ cmds' = Append(cmds, Cmd("ar", so_objects, rc))
    /\ pc' = "link"
    /\ UNCHANGED <<printed, exit_code>>
    /\ UNCHANGED <<env, rvars, dvars, hvars, script, listing, shader_todo, library_link_args, futures,
                   link_i>>

\* ar rcs libengine.a <so_objects> ends with status rc.
Archive(rc) ==
    /\ pc = "archive"
    /\ cmds' = Append(cmds, Cmd("ar", so_objects, rc))
    /\ IF rc # 0
       THEN /\ Exit(rc)
            /\ printed' = Append(printed, <<"Failed to link static library", <<>>>>)
       ELSE /\ pc' = "link"
            /\ UNCHANGED <<printed, exit_code>>
    /\ UNCHANGED <<env, rvars, dvars, hvars, script, listing, shader_todo, library_link_args, futures,
                   link_i>>

\* The link with -lengine after the library arguments.
LinkArgs_engine_last(i) ==
    <<ObjArg(main_objects[i])>>
    \o (IF script = "build.py" THEN library_link_args ELSE motive_lib_links)
    \o <<EngineArg>>

\* The arguments of the link of executable i: its object, -lengine, the
\* library arguments.
LinkArgs(i) ==
    <<ObjArg(main_objects[i]), EngineArg>>
    \o (IF script = "build.py" THEN library_link_args ELSE motive_lib_links)

\* The link loop goes on to the next executable after a failed link.
LinkExecutable_keep_going(rc) ==
    /\ pc = "link"
    /\ link_i <= Len(main_sources)
    /\ cmds' = Append(cmds, Cmd("g++", LinkArgs(link_i), rc))
    /\ link_i' = link_i + 1
    /\ UNCHANGED <<pc, printed, exit_code>>
    /\ UNCHANGED <<env, rvars, dvars, hvars, script, listing, shader_todo, library_link_args, futures>>

\* The link of the next executable ends with status rc.
LinkExecutable(rc) ==
    /\ pc = "link"
    /\ link_i <= Len(main_sources)
    /\ cmds' = Append(cmds, Cmd("g++", LinkArgs(link_i), rc))
    /\ IF rc # 0
       THEN /\ Exit(rc)
            /\ printed' = Append(printed, <<"Failed to link executable", <<main_sources[link_i]>>>>)
            /\ UNCHANGED link_i
       ELSE /\ link_i' = link_i + 1
            /\ UNCHANGED <<pc, printed, exit_code>>
    /\ UNCHANGED <<env, rvars, dvars, hvars, script, listing, shader_todo, library_link_args, futures>>

\* The script runs off its end.
BuildSuccessful ==
    /\ pc = "link"
    /\ link_i > Len(main_sources)
    /\ printed' = Append(printed, <<"Build successful", <<>>>>)
    /\ Exit(0)
    /\ UNCHANGED <<env, rvars, dvars, hvars, script, listing, shader_todo, library_link_args, futures,
                   link_i, cmds>>

\* The hosts of a pipeline run: each required library of build.py is seen
\* by the compiler or nowhere, each optional one is in the linker cache or
\* nowhere.
PipelineHosts ==
    { ShapeHost(shape, core_libraries \o optional_libraries) :
        shape \in { f \in [Range(core_libraries \o optional_libraries) -> Shapes] :
                      /\ \A n \in Range(core_libraries) : f[n] \in {"tier1", "none"}
                      /\ \A n \in Range(optional_libraries) : f[n] \in {"tier3", "none"} } }

Init ==
    /\ script \in Scripts
    /\ listing \in Listings(SourceDirFiles, MaxListing)
    /\ shader_todo \in Listings(ShaderDirFiles, MaxShaders)
    /\ IF script = "build.py"
       THEN env \in PipelineHosts /\ pc = "collect"
       ELSE env = ShapeHost([n \in AllNames |-> "none"], <<>>) /\ pc = "shaders"
    /\ library_link_args = <<>>
    /\ futures = <<>>
    /\ link_i = 1
    /\ cmds = <<>>
    /\ printed = <<>>
    /\ exit_code = 0
    /\ ResolverIdle
    /\ DepsIdle
    /\ HwaccelIdle

Next ==
    \/ CollectLinkArgs
    \/ SkipShader
    \/ \E rc \in RC : CompileShader(rc)
    \/ ShadersDone
    \/ Submit
    \/ \E i \in 1..Len(futures) : StartCompile(i)
    \/ \E i \in 1..Len(futures), rc \in CompileRC : FinishCompile(i, rc)
    \/ Join
    \/ \E rc \in RC : Archive(rc)
    \/ \E rc \in RC : LinkExecutable(rc)
    \/ BuildSuccessful

Spec == Init /\ [][Next]_vars

\* ------------------------------------------------------------------------
\* Properties of the build pipeline (Spec)
\* ------------------------------------------------------------------------

Raised == { i \in 1..Len(futures) : futures[i].st = "raised" }

FailedCmds(prog) == { k \in 1..Len(cmds) : cmds[k].prog = prog /\ cmds[k].rc # 0 }

MissingRequiredPrinted ==
    \E k \in 1..Len(printed) : printed[k][1] = "Missing required libraries"

\* C1: if the compile command of any submitted source exits non-zero, the
\* run never starts the ar command nor any executable link.
C1_CompileFailureStopsBeforeLink ==
    Raised # {} => \A k \in 1..Len(cmds) : cmds[k].prog \notin {"ar", "g++"}

\* The status of the first failing step in pipeline order: unresolved
\* required library, shader, source compile, archive, link; 0 with none.
FirstFailureStatus ==
    IF MissingRequiredPrinted THEN 1
    ELSE IF FailedCmds("glslangValidator") # {}
         THEN cmds[CHOOSE k \in FailedCmds("glslangValidator") : TRUE].rc
    ELSE IF Raised # {}
         THEN futures[CHOOSE i \in Raised : \A j \in Raised : i <= j].rc
    ELSE IF FailedCmds("ar") # {} THEN cmds[CHOOSE k \in FailedCmds("ar") : TRUE].rc
    ELSE IF FailedCmds("g++") # {} THEN cmds[CHOOSE k \in FailedCmds("g++") : TRUE].rc
    ELSE 0

\* C2: the exit code of a run is the status of its first failing step in
\* pipeline order, and zero exactly when no step failed.
C2_ExitCodeMirrorsFirstFailure ==
    pc = "exited" => exit_code = FirstFailureStatus

\* C3: a shader compile that ends non-zero is the last command of the run:
\* no shader follows it, no source was ever submitted for compilation, no
\* archive or link runs, and the process has exited with that status.
C3_ShaderFailureFatal ==
    \A k \in 1..Len(cmds) :
        (cmds[k].prog = "glslangValidator" /\ cmds[k].rc # 0) =>
            /\ k = Len(cmds)
            /\ pc = "exited"
            /\ exit_code = cmds[k].rc
            /\ futures = <<>>

\* The first shader failed with status 2 while another shader was still
\* to be compiled; the run has exited with 2.
C3_Witness ==
    /\ Len(cmds) = 1
    /\ cmds[1].prog = "glslangValidator"
    /\ cmds[1].rc = 2
    /\ Len(shader_todo) = 2
    /\ shader_todo[2].ext \in ShaderExts
    /\ pc = "exited"
    /\ exit_code = 2

\* C10: an executable link runs only after the ar command has completed
\* with status 0; a failed ar is the last command of the run, which exits
\* with a non-zero status.
C10_ArchiveBeforeLink ==
    /\ \A k \in 1..Len(cmds) :
          cmds[k].prog = "g++" =>
              \E j \in 1..(k - 1) : cmds[j].prog = "ar" /\ cmds[j].rc = 0
    /\ \A k \in 1..Len(cmds) :
          (cmds[k].prog = "ar" /\ cmds[k].rc # 0) =>
              /\ k = Len(cmds)
              /\ pc = "exited"
              /\ exit_code # 0

\* Both executables of build.py were linked, after an ar that ended 0.
C10_Witness ==
    /\ script = "build.py"
    /\ \E j \in 1..Len(cmds) :
          /\ cmds[j].prog = "ar"
          /\ cmds[j].rc = 0
          /\ Len(cmds) = j + 2
          /\ cmds[j + 1].prog = "g++"
          /\ cmds[j + 2].prog = "g++"

\* The sources the directory scan discovers: the listed files with the
\* source extension.
Discovered == { f \in Range(listing) : f.ext = "cpp" }

\* The object file a compile task writes: -o {obj_file}
ObjectWritten(i) == ObjectOf(futures[i].src)

\* C11: the library units are exactly the discovered sources that are not
\* an explicit entry-point name, the library units and the entry-point
\* units are disjoint, no entry-point object is archived, and no source is
\* submitted for compilation twice.
C11_SourcePartition ==
    script \in Scripts =>
        /\ Range(so_sources) = Discovered \ Range(main_sources)
        /\ Range(so_sources) \cap Range(main_sources) = {}
        /\ \A k \in 1..Len(cmds) :
              cmds[k].prog = "ar" => Range(cmds[k].args) \cap Range(main_objects) = {}
        /\ \A i, j \in 1..Len(futures) : i # j => futures[i].src # futures[j].src

\* C12: no two tasks submitted to the worker pool write the same object
\* file.
C12_NoTwoTasksSameObject ==
    \A i, j \in 1..Len(futures) : i # j => ObjectWritten(i) # ObjectWritten(j)

\* ------------------------------------------------------------------------
\* determine_hwaccel_flags (build_deps.py)
\* ------------------------------------------------------------------------

\* pkg_config_exists(package): h.pkgs are the packages pkg-config resolves.
pkg_config_exists(h, package) == package \in h.pkgs

\* pkg_config_version("vulkan"): the version pkg-config reports, or "none".
pkg_config_version(h) == h.vulkan_pc

pkg_features ==
    << [flag |-> "--enable-libdrm", packages |-> {"libdrm"}, description |-> <<"libdrm">>],
       [flag |-> "--enable-vaapi", packages |-> {"libva"}, description |-> <<"VAAPI">>],
       [flag |-> "--enable-vdpau", packages |-> {"vdpau"}, description |-> <<"VDPAU">>],
       [flag |-> "--enable-opencl", packages |-> {"OpenCL"}, description |-> <<"OpenCL">>] >>

cuda_flags == <<"--enable-cuda", "--enable-cuvid", "--enable-nvdec", "--enable-nvenc">>

\* os.environ.get("CUDA_HOME") or os.environ.get("CUDA_PATH"): each is
\* "unset", "dir" (names an existing directory) or "missing".
cuda_env(h) == IF h.cuda_home # "unset" THEN h.cuda_home ELSE h.cuda_path

\* Only the front-end on the search path makes the toolchain a candidate.
cuda_available_path_only(h) == h.nvcc

cuda_available(h) ==
    \/ h.nvcc
    \/ cuda_env(h) = "dir"
    \/ h.cuda_default

\* The default directories searched for the codec headers, in order.
ffnv_default_dirs ==
    <<"/usr/include/ffnvcodec", "/usr/local/include/ffnvcodec", "~/.local/include/ffnvcodec">>

\* FFNV_CODEC_INCLUDE first when set, then the defaults; h.ffnv_dirs are
\* the directories that hold nvEncodeAPI.h or nvDecodeAPI.h.
ffnv_candidates(h) ==
    (IF h.ffnv_custom # "unset" THEN <<h.ffnv_custom>> ELSE <<>>) \o ffnv_default_dirs

ffnvcodec_available(h) ==
    \E i \in 1..Len(ffnv_candidates(h)) : ffnv_candidates(h)[i] \in h.ffnv_dirs

\* The probe packages are not looked at: every feature counts as present.
PkgEnabled_ignore_probe(h, f) == f.packages = f.packages

PkgEnabled(h, f) == \A pkg \in f.packages : pkg_config_exists(h, pkg)

vulkan_msg(h) ==
    <<"Vulkan (requires >= 1.3.277",
      IF pkg_config_version(h) # "none" THEN pkg_config_version(h) ELSE "not found",
      "disabled due to header issues">>

determine_hwaccel_flags(h) ==
    LET on == SelectSeq(pkg_features, LAMBDA f : PkgEnabled(h, f))
        off == SelectSeq(pkg_features, LAMBDA f : ~PkgEnabled(h, f))
        cuda == cuda_available(h) /\ ffnvcodec_available(h)
    IN  [flags |-> [i \in 1..Len(on) |-> on[i].flag] \o (IF cuda THEN cuda_flags ELSE <<>>),
         enabled_descriptions |->
             [i \in 1..Len(on) |-> on[i].description]
             \o (IF cuda THEN << <<"CUDA/NVDEC">> >> ELSE <<>>),
         skipped_descriptions |->
             [i \in 1..Len(off) |-> off[i].description]
             \o <<vulkan_msg(h)>>
             \o (IF cuda THEN <<>>
                 ELSE << <<"CUDA/NVDEC (requires CUDA toolkit + ffnvcodec headers)">> >>)]

\* A pkg-config invocation: the option and the package.
PkgQuery(option, package) == [option |-> option, package |-> package]

\* The pkg-config invocations of one call of determine_hwaccel_flags:
\* --exists for the package of every feature (pkg_config_exists), and
\* --modversion vulkan (pkg_config_version).
hwaccel_queries ==
    { PkgQuery("--exists", pkg) :
        pkg \in UNION { pkg_features[i].packages : i \in 1..Len(pkg_features) } }
    \cup { PkgQuery("--modversion", "vulkan") }

\* ------------------------------------------------------------------------
\* The bootstrap (build_deps.py, getReqs.py)
\* ------------------------------------------------------------------------

DepScripts == {"build_deps.py", "getReqs.py"}

Deps == {"Vulkan-Headers", "glfw", "tinygltf", "glm", "nv-codec-headers", "FFmpeg", "freetype"}

\* The number of runs made one after the other.
MaxRuns == 2

\* Hosts without and with the hardware-acceleration packages.
HwNone ==
    [pkgs |-> {}, vulkan_pc |-> "none", nvcc |-> FALSE, cuda_home |-> "unset",
     cuda_path |-> "unset", cuda_default |-> FALSE, ffnv_custom |-> "unset", ffnv_dirs |-> {}]

HwAll ==
    [pkgs |-> {"libdrm", "libva", "vdpau", "OpenCL"}, vulkan_pc |-> "1.3.290", nvcc |-> TRUE,
     cuda_home |-> "unset", cuda_path |-> "dir", cuda_default |-> FALSE,
     ffnv_custom |-> "unset", ffnv_dirs |-> {"/usr/local/include/ffnvcodec"}]

\* The hosts of the bootstrap: the display packages pkg-config resolves,
\* whether apt-get and nasm are on the path, the state of vulkan_core.h in
\* the Vulkan-Headers tree, the hardware-acceleration packages.
DepHosts ==
    { [wayland |-> FALSE, x11 |-> TRUE, apt |-> TRUE, nasm |-> TRUE,
       vk_header |-> "ok", hw |-> HwNone],
      [wayland |-> FALSE, x11 |-> FALSE, apt |-> TRUE, nasm |-> FALSE,
       vk_header |-> "ok", hw |-> HwAll],
      [wayland |-> TRUE, x11 |-> FALSE, apt |-> FALSE, nasm |-> FALSE,
       vk_header |-> "ok", hw |-> HwNone],
      [wayland |-> TRUE, x11 |-> TRUE, apt |-> FALSE, nasm |-> TRUE,
       vk_header |-> "unparsable", hw |-> HwNone],
      [wayland |-> FALSE, x11 |-> FALSE, apt |-> FALSE, nasm |-> TRUE,
       vk_header |-> "ok", hw |-> HwNone],
      [wayland |-> FALSE, x11 |-> TRUE, apt |-> TRUE, nasm |-> FALSE,
       vk_header |-> "missing", hw |-> HwNone] }

\* The working trees a run can find.
DepTrees ==
    { t \in [Deps -> {"absent", "tracking", "detached"}] :
        /\ t["tinygltf"] # "tracking"
        /\ t["glm"] # "tracking"
        /\ t["nv-codec-headers"] # "detached" }

\* The artifacts earlier builds can have left.
DepDisks == SUBSET {"tinygltf/tiny_gltf.o", "/usr/include/ffnvcodec"}

\* pkg_config_exists for the display packages of setup_glfw.
have_wayland(h) == h.wayland

have_x11(h) == h.x11

\* The command run_command was given: the dependency, the command, its
\* arguments, its exit status.
DepCmd(dep, cmd, args, rc) == [dep |-> dep, cmd |-> cmd, args |-> args, rc |-> rc]

\* sys.exit(code)
DExit(code) ==
    /\ dpc' = "exited"
    /\ dexit' = code

\* run_command with the status of the command ignored: the sequence goes on.
run_command_unchecked(dep, cmd, args, rc, next) ==
    /\ dcmds' = Append(dcmds, DepCmd(dep, cmd, args, rc))
    /\ dpc' = next
    /\ UNCHANGED <<dexit, dprinted>>

\* run_command(cmd, cwd): on a non-zero status print the command and
\* sys.exit(1); otherwise go on at `next`.
run_command(dep, cmd, args, rc, next) ==
    /\ dcmds' = Append(dcmds, DepCmd(dep, cmd, args, rc))
    /\ IF rc # 0
       THEN /\ DExit(1)
            /\ dprinted' = Append(dprinted, <<"Command failed", cmd>>)
       ELSE /\ dpc' = next
            /\ UNCHANGED <<dexit, dprinted>>

\* A step that runs no command.
Goto(next, msg) ==
    /\ dpc' = next
    /\ dprinted' = Append(dprinted, msg)
    /\ UNCHANGED <<dcmds, dexit>>

\* ensure_exists_or_exit on a missing folder.
MissingFolder(what) ==
    /\ DExit(1)
    /\ dprinted' = Append(dprinted, <<"Missing required folder", what,
                                      "git submodule update --init --recursive">>)
    /\ UNCHANGED dcmds

\* A fatal message followed by sys.exit(1).
Fatal(msg) ==
    /\ DExit(1)
    /\ dprinted' = Append(dprinted, msg)
    /\ UNCHANGED dcmds

DepFrame == UNCHANGED <<env, rvars, pvars, hvars, dscript, run, start_tree, start_disk>>

\* build_deps.py setup_vulkan_headers
B_VulkanHeaders(rc) ==
    /\ dscript = "build_deps.py"
    /\ dpc = "setup_vulkan_headers"
    /\ IF tree["Vulkan-Headers"] = "absent" THEN MissingFolder("Vulkan-Headers")
       ELSE IF tree["Vulkan-Headers"] = "detached"
            THEN Goto("setup_glfw", <<"Vulkan-Headers is detached; skipping git pull">>)
       ELSE run_command("Vulkan-Headers", "git pull", <<>>, rc, "setup_glfw")
    /\ UNCHANGED <<host, tree, disk>>
    /\ DepFrame

\* getReqs.py setup_vulkan_headers
G_VulkanHeaders(rc) ==
    /\ dscript = "getReqs.py"
    /\ dpc = "setup_vulkan_headers"
    /\ IF tree["Vulkan-Headers"] = "absent"
       THEN /\ run_command("Vulkan-Headers", "git clone", <<>>, rc, "setup_glfw")
            /\ tree' = IF rc = 0 THEN [tree EXCEPT !["Vulkan-Headers"] = "tracking"] ELSE tree
       ELSE /\ run_command("Vulkan-Headers", "git pull", <<>>, rc, "setup_glfw")
            /\ UNCHANGED tree
    /\ UNCHANGED <<host, disk>>
    /\ DepFrame

\* build_deps.py setup_glfw up to the cmake command: the folder check, the
\* display packages, the apt-get install of the X11 packages.
B_Glfw(rc) ==
    /\ dscript = "build_deps.py"
    /\ dpc = "setup_glfw"
    /\ IF tree["glfw"] = "absent"
       THEN MissingFolder("glfw") /\ UNCHANGED <<host, disk>>
       ELSE /\ disk' = disk \cup {"glfw/build"}
            /\ IF have_wayland(host) \/ have_x11(host)
               THEN Goto("glfw_cmake", <<"Building GLFW">>) /\ UNCHANGED host
               ELSE IF ~host.apt
                    THEN Fatal(<<"Install at least one set of dev packages">>) /\ UNCHANGED host
               ELSE \E x \in BOOLEAN :
                       /\ host' = IF rc = 0 THEN [host EXCEPT !.x11 = x] ELSE host
                       /\ IF rc = 0 /\ ~x
                          THEN /\ dcmds' = Append(dcmds, DepCmd("glfw", "apt-get install", <<"x11">>, rc))
                               /\ DExit(1)
                               /\ dprinted' = Append(dprinted, <<"Install at least one set of dev packages">>)
                          ELSE run_command("glfw", "apt-get install", <<"x11">>, rc, "glfw_cmake")
    /\ UNCHANGED tree
    /\ DepFrame

\* getReqs.py setup_glfw up to the cmake command.
G_Glfw(rc) ==
    /\ dscript = "getReqs.py"
    /\ dpc = "setup_glfw"
    /\ IF tree["glfw"] = "absent"
       THEN /\ run_command("glfw", "git clone", <<>>, rc, "glfw_cmake")
            /\ tree' = IF rc = 0 THEN [tree EXCEPT !["glfw"] = "tracking"] ELSE tree
            /\ disk' = IF rc = 0 THEN disk \cup {"glfw/build"} ELSE disk
       ELSE /\ Goto("glfw_cmake", <<"Building GLFW">>)
            /\ disk' = disk \cup {"glfw/build"}
            /\ UNCHANGED tree
    /\ UNCHANGED host
    /\ DepFrame

\* The flags setup_glfw gives cmake.
glfw_cmake_flags ==
    IF dscript = "getReqs.py" THEN <<"-DCMAKE_BUILD_TYPE=Release">>
    ELSE <<"-DCMAKE_BUILD_TYPE=Release">>
         \o (IF ~have_wayland(host) THEN <<"-DGLFW_BUILD_WAYLAND=OFF">> ELSE <<>>)
         \o (IF have_wayland(host) /\ ~have_x11(host) THEN <<"-DGLFW_BUILD_X11=OFF">> ELSE <<>>)

\* setup_glfw: cmake .. <flags>
GlfwCmake(rc) ==
    /\ dpc = "glfw_cmake"
    /\ run_command("glfw", "cmake", glfw_cmake_flags, rc, "glfw_make")
    /\ UNCHANGED <<host, tree, disk>>
    /\ DepFrame

\* setup_glfw: make -j
GlfwMake(rc) ==
    /\ dpc = "glfw_make"
    /\ run_command("glfw", "make", <<>>, rc, "setup_tinygltf")
    /\ disk' = IF rc = 0 THEN disk \cup {"glfw/build/src/libglfw3.a"} ELSE disk
    /\ UNCHANGED <<host, tree>>
    /\ DepFrame

\* setup_tinygltf without the folder check.
B_Tinygltf_no_folder_check(rc) ==
    /\ dscript = "build_deps.py"
    /\ dpc = "setup_tinygltf"
    /\ IF "tinygltf/tiny_gltf.o" \in disk
       THEN Goto("setup_glm", <<"tinygltf already built">>) /\ UNCHANGED disk
       ELSE /\ run_command("tinygltf", "g++ -c", <<>>, rc, "tinygltf_ar")
            /\ disk' = IF rc = 0 THEN disk \cup {"tinygltf/tiny_gltf.o"} ELSE disk
    /\ UNCHANGED <<host, tree>>
    /\ DepFrame

\* build_deps.py setup_tinygltf up to its first command.
B_Tinygltf(rc) ==
    /\ dscript = "build_deps.py"
    /\ dpc = "setup_tinygltf"
    /\ IF tree["tinygltf"] = "absent"
       THEN MissingFolder("tinygltf") /\ UNCHANGED disk
       ELSE IF "tinygltf/tiny_gltf.o" \in disk
            THEN Goto("setup_glm", <<"tinygltf already built">>) /\ UNCHANGED disk
       ELSE /\ run_command("tinygltf", "g++ -c", <<>>, rc, "tinygltf_ar")
            /\ disk' = IF rc = 0 THEN disk \cup {"tinygltf/tiny_gltf.o"} ELSE disk
    /\ UNCHANGED <<host, tree>>
    /\ DepFrame

\* getReqs.py setup_tinygltf up to its first command.
G_Tinygltf(rc) ==
    /\ dscript = "getReqs.py"
    /\ dpc = "setup_tinygltf"
    /\ IF tree["tinygltf"] = "absent"
       THEN /\ run_command("tinygltf", "git clone", <<>>, rc, "tinygltf_compile")
            /\ tree' = IF rc = 0 THEN [tree EXCEPT !["tinygltf"] = "tracking"] ELSE tree
       ELSE /\ Goto("setup_glm", <<"tinygltf present">>)
            /\ UNCHANGED tree
    /\ UNCHANGED <<host, disk>>
    /\ DepFrame

\* getReqs.py setup_tinygltf: g++ -c ... tiny_gltf.cc, after the clone.
G_TinygltfCompile(rc) ==
    /\ dpc = "tinygltf_compile"
    /\ run_command("tinygltf", "g++ -c", <<>>, rc, "tinygltf_ar")
    /\ disk' = IF rc = 0 THEN disk \cup {"tinygltf/tiny_gltf.o"} ELSE disk
    /\ UNCHANGED <<host, tree>>
    /\ DepFrame

\* setup_tinygltf: ar rcs libtinygltf.a
TinygltfAr(rc) ==
    /\ dpc = "tinygltf_ar"
    /\ run_command("tinygltf", "ar rcs", <<>>, rc, "setup_glm")
    /\ disk' = IF rc = 0 THEN disk \cup {"libtinygltf.a"} ELSE disk
    /\ UNCHANGED <<host, tree>>
    /\ DepFrame

\* build_deps.py setup_glm
B_Glm ==
    /\ dscript = "build_deps.py"
    /\ dpc = "setup_glm"
    /\ IF tree["glm"] = "absent" THEN MissingFolder("glm")
       ELSE Goto("setup_ffnvcodec", <<"GLM found">>)
    /\ UNCHANGED <<host, tree, disk>>
    /\ DepFrame

\* getReqs.py setup_glm
G_Glm(rc) ==
    /\ dscript = "getReqs.py"
    /\ dpc = "setup_glm"
    /\ IF tree["glm"] = "absent"
       THEN /\ run_command("glm", "git clone", <<>>, rc, "main_end")
            /\ tree' = IF rc = 0 THEN [tree EXCEPT !["glm"] = "tracking"] ELSE tree
       ELSE /\ Goto("main_end", <<"glm present">>)
            /\ UNCHANGED tree
    /\ UNCHANGED <<host, disk>>
    /\ DepFrame

\* Where the Makefile of nv-codec-headers installs the headers: its PREFIX
\* is not set by the script.
FfnvInstallDirs == {"/usr/include/ffnvcodec", "/usr/local/include/ffnvcodec"}

\* setup_ffnvcodec up to the make command.
B_Ffnvcodec(rc) ==
    /\ dpc = "setup_ffnvcodec"
    /\ IF "/usr/include/ffnvcodec" \in disk
       THEN /\ Goto("setup_ffmpeg", <<"nv-codec-headers already installed; skipping">>)
            /\ UNCHANGED tree
       ELSE IF tree["nv-codec-headers"] = "absent"
            THEN /\ run_command("nv-codec-headers", "git clone", <<>>, rc, "ffnv_make")
                 /\ tree' = IF rc = 0 THEN [tree EXCEPT !["nv-codec-headers"] = "tracking"]
                            ELSE tree
       ELSE /\ Goto("ffnv_make", <<"Building nv-codec-headers">>)
            /\ UNCHANGED tree
    /\ UNCHANGED <<host, disk>>
    /\ DepFrame

\* setup_ffnvcodec: make
B_FfnvMake(rc) ==
    /\ dpc = "ffnv_make"
    /\ run_command("nv-codec-headers", "make", <<>>, rc, "ffnv_install")
    /\ UNCHANGED <<host, tree, disk>>
    /\ DepFrame

\* setup_ffnvcodec: sudo make install
B_FfnvInstall(rc) ==
    /\ dpc = "ffnv_install"
    /\ run_command("nv-codec-headers", "make install", <<>>, rc, "setup_ffmpeg")
    /\ \E d \in FfnvInstallDirs : disk' = IF rc = 0 THEN disk \cup {d} ELSE disk
    /\ UNCHANGED <<host, tree>>
    /\ DepFrame

\* setup_ffmpeg: the repository, pulled, cloned or left alone.
B_Ffmpeg(rc) ==
    /\ dpc = "setup_ffmpeg"
    /\ IF tree["FFmpeg"] = "detached"
       THEN /\ Goto("setup_freetype", <<"FFmpeg repository is detached; skipping git pull">>)
            /\ UNCHANGED tree
       ELSE IF tree["FFmpeg"] = "tracking"
            THEN /\ run_command("FFmpeg", "git pull", <<>>, rc, "ffmpeg_prepare")
                 /\ UNCHANGED tree
       ELSE /\ run_command("FFmpeg", "git clone", <<>>, rc, "ffmpeg_prepare")
            /\ tree' = IF rc = 0 THEN [tree EXCEPT !["FFmpeg"] = "tracking"] ELSE tree
    /\ UNCHANGED <<host, disk>>
    /\ DepFrame

\* ensure_local_vulkan_pc: the header read, vulkan.pc written.
ensure_local_vulkan_pc ==
    IF host.vk_header = "missing"
    THEN MissingFolder("Vulkan-Headers/include/vulkan/vulkan_core.h") /\ UNCHANGED disk
    ELSE IF host.vk_header = "unparsable"
         THEN Fatal(<<"Could not parse Vulkan header version">>) /\ UNCHANGED disk
    ELSE /\ Goto("ffmpeg_configure", <<"Configuring and building FFmpeg">>)
         /\ disk' = disk \cup {"Vulkan-Headers/.pkgconfig/vulkan.pc", "FFmpeg/.build", "FFmpeg/.ffmpeg"}

\* setup_ffmpeg between the repository and configure: nasm found or
\* installed, then ensure_local_vulkan_pc and the build directories.
B_FfmpegPrepare(rc) ==
    /\ dpc = "ffmpeg_prepare"
    /\ IF host.nasm
       THEN ensure_local_vulkan_pc /\ UNCHANGED host
       ELSE IF ~host.apt
            THEN Fatal(<<"apt-get not available; please install nasm">>) /\ UNCHANGED <<host, disk>>
       ELSE /\ run_command("FFmpeg", "apt-get install", <<"nasm">>, rc, "ffmpeg_prepare")
            /\ host' = IF rc = 0 THEN [host EXCEPT !.nasm = TRUE] ELSE host
            /\ UNCHANGED disk
    /\ UNCHANGED tree
    /\ DepFrame

\* The version of the vulkan.pc that ensure_local_vulkan_pc writes.
LocalVulkanVersion == "1.4.309"

\* What determine_hwaccel_flags sees inside setup_ffmpeg: the local
\* vulkan.pc leads PKG_CONFIG_PATH, installed codec headers are on disk.
HwSeen ==
    [host.hw EXCEPT !.vulkan_pc = LocalVulkanVersion,
                    !.ffnv_dirs = @ \cup (disk \cap FfnvInstallDirs)]

\* ", ".join(descriptions): the words of the descriptions, one after the other.
RECURSIVE JoinDescriptions(_)
JoinDescriptions(ds) == IF ds = <<>> THEN <<>> ELSE Head(ds) \o JoinDescriptions(Tail(ds))

\* setup_ffmpeg: determine_hwaccel_flags, its report, ../configure
B_FfmpegConfigure(rc) ==
    /\ dpc = "ffmpeg_configure"
    /\ LET hwaccel_options == determine_hwaccel_flags(HwSeen)
       IN  /\ dcmds' = Append(dcmds, DepCmd("FFmpeg", "configure", hwaccel_options.flags, rc))
           /\ dprinted' = dprinted
                  \o << IF hwaccel_options.flags # <<>>
                        THEN <<"Enabling">> \o JoinDescriptions(hwaccel_options.enabled_descriptions)
                        ELSE <<"No optional FFmpeg hardware decode features detected">> >>
                  \o (IF hwaccel_options.skipped_descriptions # <<>>
                      THEN << <<"Skipping">> \o JoinDescriptions(hwaccel_options.skipped_descriptions) >>
                      ELSE <<>>)
                  \o (IF rc # 0 THEN << <<"Command failed", "configure">> >> ELSE <<>>)
    /\ IF rc # 0 THEN DExit(1) ELSE dpc' = "ffmpeg_make" /\ UNCHANGED dexit
    /\ UNCHANGED <<host, tree, disk>>
    /\ DepFrame

\* setup_ffmpeg: make -j
B_FfmpegMake(rc) ==
    /\ dpc = "ffmpeg_make"
    /\ run_command("FFmpeg", "make", <<>>, rc, "ffmpeg_install")
    /\ UNCHANGED <<host, tree, disk>>
    /\ DepFrame

\* setup_ffmpeg: make install
B_FfmpegInstall(rc) ==
    /\ dpc = "ffmpeg_install"
    /\ run_command("FFmpeg", "make install", <<>>, rc, "setup_freetype")
    /\ disk' = IF rc = 0 THEN disk \cup {"FFmpeg/.ffmpeg/lib"} ELSE disk
    /\ UNCHANGED <<host, tree>>
    /\ DepFrame

\* setup_freetype: the repository, then the build directories.
B_Freetype(rc) ==
    /\ dpc = "setup_freetype"
    /\ IF tree["freetype"] = "detached"
       THEN /\ Goto("freetype_cmake", <<"FreeType repository is detached; skipping git pull">>)
            /\ UNCHANGED tree
            /\ disk' = disk \cup {"freetype/build"}
       ELSE IF tree["freetype"] = "tracking"
            THEN /\ run_command("freetype", "git pull", <<>>, rc, "freetype_cmake")
                 /\ UNCHANGED tree
                 /\ disk' = IF rc = 0 THEN disk \cup {"freetype/build"} ELSE disk
       ELSE /\ run_command("freetype", "git clone", <<>>, rc, "freetype_cmake")
            /\ tree' = IF rc = 0 THEN [tree EXCEPT !["freetype"] = "tracking"] ELSE tree
            /\ disk' = IF rc = 0 THEN disk \cup {"freetype/build"} ELSE disk
    /\ UNCHANGED host
    /\ DepFrame

\* setup_freetype: cmake ..
B_FreetypeCmake(rc) ==
    /\ dpc = "freetype_cmake"
    /\ run_command("freetype", "cmake", <<>>, rc, "freetype_make")
    /\ UNCHANGED <<host, tree, disk>>
    /\ DepFrame

\* setup_freetype: make -j
B_FreetypeMake(rc) ==
    /\ dpc = "freetype_make"
    /\ run_command("freetype", "make", <<>>, rc, "freetype_install")
    /\ UNCHANGED <<host, tree, disk>>
    /\ DepFrame

\* setup_freetype: make install
B_FreetypeInstall(rc) ==
    /\ dpc = "freetype_install"
    /\ run_command("freetype", "make install", <<>>, rc, "main_end")
    /\ disk' = IF rc = 0 THEN disk \cup {"freetype/build/install/lib"} ELSE disk
    /\ UNCHANGED <<host, tree>>
    /\ DepFrame

\* main: every setup function returned.
SetupComplete ==
    /\ dpc = "main_end"
    /\ dpc' = "done"
    /\ dexit' = 0
    /\ dprinted' = Append(dprinted, <<"=== Setup complete ===">>)
    /\ UNCHANGED <<dcmds, host, tree, disk>>
    /\ DepFrame

\* The script is started again on the tree the last run left.
RunAgain ==
    /\ dpc = "done"
    /\ run < MaxRuns
    /\ run' = run + 1
    /\ dpc' = "setup_vulkan_headers"
    /\ dcmds' = <<>>
    /\ dprinted' = <<>>
    /\ dexit' = 0
    /\ start_tree' = tree
    /\ start_disk' = disk
    /\ UNCHANGED <<host, tree, disk, dscript, env, rvars, pvars, hvars>>

\* A fresh start of either script.
InitDeps ==
    /\ dscript \in DepScripts
    /\ host \in DepHosts
    /\ tree \in DepTrees
    /\ disk \in DepDisks
    /\ dscript = "getReqs.py" =>
          /\ \A d \in {"nv-codec-headers", "FFmpeg", "freetype"} : tree[d] = "absent"
          /\ host = [wayland |-> FALSE, x11 |-> TRUE, apt |-> TRUE, nasm |-> TRUE,
                     vk_header |-> "ok", hw |-> HwNone]
          /\ disk = {}
    /\ "/usr/include/ffnvcodec" \in disk => tree["nv-codec-headers"] = "absent"
    /\ "tinygltf/tiny_gltf.o" \in disk => tree["tinygltf"] # "absent"
    /\ run = 1
    /\ start_tree = tree
    /\ start_disk = disk
    /\ dpc = "setup_vulkan_headers"
    /\ dcmds = <<>>
    /\ dprinted = <<>>
    /\ dexit = 0
    /\ env = ShapeHost([n \in AllNames |-> "none"], <<>>)
    /\ ResolverIdle
    /\ PipelineIdle
    /\ HwaccelIdle

DepRC == {0, 1}

NextDeps ==
    \/ \E rc \in DepRC : B_VulkanHeaders(rc)
    \/ \E rc \in DepRC : G_VulkanHeaders(rc)
    \/ \E rc \in DepRC : B_Glfw(rc)
    \/ \E rc \in DepRC : G_Glfw(rc)
    \/ \E rc \in DepRC : GlfwCmake(rc)
    \/ \E rc \in DepRC : GlfwMake(rc)
    \/ \E rc \in DepRC : B_Tinygltf(rc)
    \/ \E rc \in DepRC : G_Tinygltf(rc)
    \/ \E rc \in DepRC : G_TinygltfCompile(rc)
    \/ \E rc \in DepRC : TinygltfAr(rc)
    \/ B_Glm
    \/ \E rc \in DepRC : G_Glm(rc)
    \/ \E rc \in DepRC : B_Ffnvcodec(rc)
    \/ \E rc \in DepRC : B_FfnvMake(rc)
    \/ \E rc \in DepRC : B_FfnvInstall(rc)
    \/ \E rc \in DepRC : B_Ffmpeg(rc)
    \/ \E rc \in DepRC : B_FfmpegPrepare(rc)
    \/ \E rc \in DepRC : B_FfmpegConfigure(rc)
    \/ \E rc \in DepRC : B_FfmpegMake(rc)
    \/ \E rc \in DepRC : B_FfmpegInstall(rc)
    \/ \E rc \in DepRC : B_Freetype(rc)
    \/ \E rc \in DepRC : B_FreetypeCmake(rc)
    \/ \E rc \in DepRC : B_FreetypeMake(rc)
    \/ \E rc \in DepRC : B_FreetypeInstall(rc)
    \/ SetupComplete
    \/ RunAgain

SpecDeps == InitDeps /\ [][NextDeps]_vars

\* ------------------------------------------------------------------------
\* Properties of the bootstrap
\* ------------------------------------------------------------------------

\* The run has issued `cmd` for the dependency.
Issued(dep, cmd) == \E i \in 1..Len(dcmds) : dcmds[i].dep = dep /\ dcmds[i].cmd = cmd

Pulled(dep) == Issued(dep, "git pull")

\* The commands that configure, make or compile a dependency.
BuildCmds == {"cmake", "configure", "make", "make install", "g++ -c", "ar rcs"}

\* The artifacts a finished build of the dependency leaves.
Artifacts(dep) ==
    CASE dep = "glfw" -> {"glfw/build/src/libglfw3.a"}
      [] dep = "tinygltf" -> {"tinygltf/tiny_gltf.o"}
      [] dep = "nv-codec-headers" -> FfnvInstallDirs
      [] dep = "FFmpeg" -> {"FFmpeg/.ffmpeg/lib"}
      [] dep = "freetype" -> {"freetype/build/install/lib"}
      [] OTHER -> {}

AlreadyBuilt(dep) == Artifacts(dep) \cap start_disk # {}

\* A tree that was pinned when the run started is never pulled.
PinnedNeverPulled ==
    dpc # "idle" =>
        \A d \in Deps : start_tree[d] = "detached" => ~Pulled(d)

\* A tree that was tracking when the run started has been pulled by the
\* time the run completes.
TrackingAlwaysPulled ==
    dpc = "done" =>
        \A d \in Deps : start_tree[d] = "tracking" => Pulled(d)

\* C8: for every dependency whose working tree is present when a bootstrap
\* run starts, the run issues 'git pull' for it if and only if the tree is
\* tracking: a pinned tree is never pulled, a tracking tree always is.
C8_PullIffTracking == PinnedNeverPulled /\ TrackingAlwaysPulled

\* C9: a run that follows a successful run on an unchanged tree issues no
\* configure, make or compile command for a dependency whose artifacts the
\* earlier run left.
C9_NoRedundantBuild ==
    run > 1 =>
        \A i \in 1..Len(dcmds) :
            dcmds[i].cmd \in BuildCmds => ~AlreadyBuilt(dcmds[i].dep)

\* C13: a command of the bootstrap that exits non-zero is the last thing
\* the run does: no command follows it, the last line printed is the
\* failed command, and the process has exited non-zero.
C13_CommandFailureHalts ==
    \A k \in 1..Len(dcmds) :
        dcmds[k].rc # 0 =>
            /\ k = Len(dcmds)
            /\ dpc = "exited"
            /\ dexit # 0
            /\ dprinted # <<>>
            /\ dprinted[Len(dprinted)] = <<"Command failed", dcmds[k].cmd>>

\* The make of glfw failed after an earlier command had succeeded, with
\* five dependencies still to set up; the run has exited with 1.
C13_Witness ==
    /\ dscript = "build_deps.py"
    /\ Len(dcmds) >= 2
    /\ dcmds[Len(dcmds)] = DepCmd("glfw", "make", <<>>, 1)
    /\ dcmds[1].rc = 0
    /\ dpc = "exited"
    /\ dexit = 1

\* The codec headers are an optional feature of the FFmpeg build, and the
\* run found none of them installed.
CodecHeadersAbsent ==
    /\ dscript = "build_deps.py"
    /\ start_disk \cap FfnvInstallDirs = {}
    /\ host.hw.ffnv_dirs = {}

\* The run has exited non-zero on a command of the dependency.
ExitedOn(dep) ==
    /\ dpc = "exited"
    /\ dexit # 0
    /\ dcmds # <<>>
    /\ dcmds[Len(dcmds)].dep = dep
    /\ dcmds[Len(dcmds)].rc # 0

\* C14: the absence of an optional feature is a skip: a run that finds the
\* NVIDIA codec headers missing never exits non-zero on their account.
C14_OptionalAbsenceIsSkip ==
    CodecHeadersAbsent => ~ExitedOn("nv-codec-headers")

\* ------------------------------------------------------------------------
\* SpecHwaccel: determine_hwaccel_flags applied to hosts
\* ------------------------------------------------------------------------

HwPackages == {"libdrm", "libva", "vdpau", "OpenCL"}

\* A directory FFNV_CODEC_INCLUDE can name.
FfnvCustomDir == "/opt/ffnvcodec"

\* The hosts determine_hwaccel_flags is applied to.
HwHosts ==
    [pkgs : SUBSET HwPackages,
     vulkan_pc : {"none", "1.3.290"},
     nvcc : BOOLEAN,
     cuda_home : {"unset", "dir", "missing"},
     cuda_path : {"unset", "dir", "missing"},
     cuda_default : BOOLEAN,
     ffnv_custom : {"unset", FfnvCustomDir},
     ffnv_dirs : SUBSET ({FfnvCustomDir} \cup Range(ffnv_default_dirs))]

InitHwaccel ==
    /\ probe \in HwHosts
    /\ hwaccel = <<>>
    /\ hpc = "call"
    /\ pkg_queries = {}
    /\ env = ShapeHost([n \in AllNames |-> "none"], <<>>)
    /\ ResolverIdle
    /\ PipelineIdle
    /\ DepsIdle

\* hwaccel_options = determine_hwaccel_flags()
DetermineHwaccelFlags ==
    /\ hpc = "call"
    /\ hwaccel' = determine_hwaccel_flags(probe)
    /\ pkg_queries' = hwaccel_queries
    /\ hpc' = "returned"
    /\ UNCHANGED <<probe, env, rvars, pvars, dvars>>

NextHwaccel == DetermineHwaccelFlags

SpecHwaccel == InitHwaccel /\ [][NextHwaccel]_vars

\* ------------------------------------------------------------------------
\* Properties of determine_hwaccel_flags (SpecHwaccel)
\* ------------------------------------------------------------------------

\* How often x occurs in the sequence q.
Count(q, x) == Cardinality({ i \in 1..Len(q) : q[i] = x })

\* The position of a flag among the declared features, 0 for other flags.
FeatureIndex(flag) ==
    IF \E i \in 1..Len(pkg_features) : pkg_features[i].flag = flag
    THEN CHOOSE i \in 1..Len(pkg_features) : pkg_features[i].flag = flag
    ELSE 0

\* C15: a package-probed feature's flag is emitted exactly when every one
\* of its probe packages resolves; each declared feature is reported once,
\* enabled or skipped and never both, on the side its probe decides; the
\* emitted feature flags keep the declared feature order.
C15_PkgFeatureFlags ==
    hpc = "returned" =>
        /\ \A i \in 1..Len(pkg_features) :
              LET f == pkg_features[i]
                  resolves == f.packages \subseteq probe.pkgs
              IN  /\ Count(hwaccel.flags, f.flag) = (IF resolves THEN 1 ELSE 0)
                  /\ Count(hwaccel.enabled_descriptions, f.description)
                        = (IF resolves THEN 1 ELSE 0)
                  /\ Count(hwaccel.skipped_descriptions, f.description)
                        = (IF resolves THEN 0 ELSE 1)
        /\ \A a, b \in 1..Len(hwaccel.flags) :
              (a < b /\ FeatureIndex(hwaccel.flags[a]) > 0 /\ FeatureIndex(hwaccel.flags[b]) > 0)
                  => FeatureIndex(hwaccel.flags[a]) < FeatureIndex(hwaccel.flags[b])

\* libva and OpenCL resolve, libdrm and vdpau do not: two flags emitted in
\* declared order, two features skipped.
C15_Witness ==
    /\ hpc = "returned"
    /\ probe.pkgs = {"libva", "OpenCL"}
    /\ ~cuda_available(probe)
    /\ hwaccel.flags = <<"--enable-vaapi", "--enable-opencl">>
    /\ Len(hwaccel.enabled_descriptions) = 2
    /\ Len(hwaccel.skipped_descriptions) = 4

\* The environment variable the toolchain probe reads names an existing
\* directory: CUDA_HOME when it is set, CUDA_PATH otherwise.
EnvNamesDirectory ==
    IF probe.cuda_home # "unset" THEN probe.cuda_home = "dir" ELSE probe.cuda_path = "dir"

ToolchainCandidate == probe.nvcc \/ EnvNamesDirectory \/ probe.cuda_default

HeadersFound ==
    \E d \in (IF probe.ffnv_custom # "unset" THEN {probe.ffnv_custom} ELSE {})
             \cup Range(ffnv_default_dirs) : d \in probe.ffnv_dirs

RequiredTrees == {"Vulkan-Headers", "glfw", "tinygltf", "glm"}

\* main: the order in which the dependencies are set up.
SetupOrder ==
    <<"Vulkan-Headers", "glfw", "tinygltf", "glm", "nv-codec-headers", "FFmpeg", "freetype">>

SetupIndex(dep) == CHOOSE i \in 1..Len(SetupOrder) : SetupOrder[i] = dep

\* The dependency whose setup function a position of the run is at; the
\* entry of a setup function is the position named after it.
StepIndex(at) ==
    CASE at = "setup_vulkan_headers" -> 1
      [] at \in {"setup_glfw", "glfw_cmake", "glfw_make"} -> 2
      [] at \in {"setup_tinygltf", "tinygltf_compile", "tinygltf_ar"} -> 3
      [] at = "setup_glm" -> 4
      [] at \in {"setup_ffnvcodec", "ffnv_make", "ffnv_install"} -> 5
      [] at \in {"setup_ffmpeg", "ffmpeg_prepare", "ffmpeg_configure", "ffmpeg_make",
                 "ffmpeg_install"} -> 6
      [] at \in {"setup_freetype", "freetype_cmake", "freetype_make", "freetype_install"} -> 7
      [] OTHER -> 8

StepEntries ==
    {"setup_vulkan_headers", "setup_glfw", "setup_tinygltf", "setup_glm", "setup_ffnvcodec",
     "setup_ffmpeg", "setup_freetype"}

\* The run ended for another reason before it reached the missing tree: a
\* command failed or the display packages of glfw were missing.
EndedEarlier ==
    \/ \E k \in 1..Len(dcmds) : dcmds[k].rc # 0
    \/ /\ dprinted # <<>>
       /\ dprinted[Len(dprinted)] = <<"Install at least one set of dev packages">>

\* C17: in build_deps.py, when the tree of a required dependency is missing
\* the run issues no command for it or for a later dependency, never gets
\* into its setup function beyond the check nor to a later one, and (unless
\* it ended earlier) exits with 1 after printing the remediation.
C17_MissingTreeFailsFast ==
    dscript = "build_deps.py" =>
        \A d \in RequiredTrees :
            start_tree[d] = "absent" =>
                /\ \A k \in 1..Len(dcmds) : SetupIndex(dcmds[k].dep) < SetupIndex(d)
                /\ dpc # "exited" =>
                      \/ StepIndex(dpc) < SetupIndex(d)
                      \/ StepIndex(dpc) = SetupIndex(d) /\ dpc \in StepEntries
                /\ (dpc = "exited" /\ ~EndedEarlier) =>
                      /\ dexit = 1
                      /\ dprinted # <<>>
                      /\ dprinted[Len(dprinted)][1] = "Missing required folder"
                      /\ dprinted[Len(dprinted)][3] = "git submodule update --init --recursive"

\* Vulkan-Headers was pulled and glfw built, then tinygltf was found
\* missing: the run has exited with 1 on the remediation message.
C17_Witness ==
    /\ dscript = "build_deps.py"
    /\ start_tree["tinygltf"] = "absent"
    /\ start_tree["glm"] = "absent"
    /\ Len(dcmds) = 3
    /\ \A k \in 1..Len(dcmds) : dcmds[k].rc = 0
    /\ dpc = "exited"
    /\ dexit = 1
    /\ dprinted[Len(dprinted)] =
          <<"Missing required folder", "tinygltf", "git submodule update --init --recursive">>

\* The link commands of the run, in the order they ran.
LinkCmds == SelectSeq(cmds, LAMBDA c : c.prog = "g++")

\* The full resolved link-argument list of the run.
FullLinkList ==
    IF script = "build.py"
    THEN collect_link_args(env, core_libraries, optional_libraries).resolved
    ELSE [i \in 1..Len(libraries) |-> FlagArg(libraries[i])]

\* C18: the arguments of the link of every executable are its own object,
\* then -lengine, then the full resolved link-argument list: -lengine
\* precedes every library argument and every executable gets the same list.
C18_LinkArgOrder ==
    \A e \in 1..Len(LinkCmds) :
        LET args == LinkCmds[e].args IN
            /\ e <= Len(main_objects)
            /\ Len(args) = 2 + Len(FullLinkList)
            /\ args[1] = ObjArg(main_objects[e])
            /\ args[2] = EngineArg
            /\ SubSeq(args, 3, Len(args)) = FullLinkList
            /\ \A a \in 1..Len(args) : args[a] = EngineArg => a = 2

\* Both executables of build.py were linked against a list of three
\* resolved libraries.
C18_Witness ==
    /\ script = "build.py"
    /\ Len(LinkCmds) = 2
    /\ Len(FullLinkList) = 3
    /\ LinkCmds[1].args[1] = ObjArg(File("motive3d", "o"))
    /\ LinkCmds[2].args[1] = ObjArg(File("motive2d", "o"))
    /\ LinkCmds[1].args[3] = LinkCmds[2].args[3]

\* The dependencies with a build recipe of their own, and its steps.
BuildRecipe(dep) ==
    CASE dep = "FFmpeg" -> {"configure", "make", "make install"}
      [] dep = "freetype" -> {"cmake", "make", "make install"}

\* C19: a completed run of build_deps.py has configured, made and installed
\* FFmpeg and FreeType, whether their trees were pinned or tracking.
C19_PinnedStillBuilds ==
    (dscript = "build_deps.py" /\ dpc = "done") =>
        \A d \in {"FFmpeg", "freetype"} : \A c \in BuildRecipe(d) : Issued(d, c)

\* The entries of a list of descriptions that are about Vulkan.
VulkanEntries(ds) == { i \in 1..Len(ds) : ds[i][1] = "Vulkan (requires >= 1.3.277" }

\* C21: determine_hwaccel_flags makes no package-metadata query for Vulkan,
\* emits no flag and no enabled entry for it whatever the host provides,
\* and reports it exactly once, with its reason, in the skipped list.
C21_VulkanForceSkip ==
    hpc = "returned" =>
        /\ \A q \in pkg_queries : q.package # "vulkan"
        /\ "--enable-vulkan" \notin Range(hwaccel.flags)
        /\ VulkanEntries(hwaccel.enabled_descriptions) = {}
        /\ Cardinality(VulkanEntries(hwaccel.skipped_descriptions)) = 1
        /\ \A i \in VulkanEntries(hwaccel.skipped_descriptions) :
              hwaccel.skipped_descriptions[i][3] = "disabled due to header issues"

\* C22: when the archive command or a link command has started, every
\* compile task submitted to the pool has terminated: none is running,
\* none is queued; the run is past the compile phase only then.
C22_JoinBarrier ==
    /\ (\E k \in 1..Len(cmds) : cmds[k].prog \in {"ar", "g++"}) => AllTasksOver
    /\ (script \in Scripts /\ pc \in {"archive", "link"}) => AllTasksOver

\* Three tasks were submitted, one of them raised, and the archive command
\* has run after all three were over.
C22_Witness ==
    /\ Len(futures) = 3
    /\ Raised # {}
    /\ \E i \in 1..Len(futures) : futures[i].st = "returned"
    /\ \E k \in 1..Len(cmds) : cmds[k].prog = "ar"

\* C23: when a compile fails the other submitted units, running or queued,
\* still run to completion (the run leaves the compile phase only when
\* every task has completed), and the run does not advance to the link
\* phase: no archive and no link command is started.
C23_NoCancellation ==
    Raised # {} =>
        /\ (pc \notin {"compile", "join"}) => AllTasksOver
        /\ \A i \in 1..Len(futures) : futures[i].st \in {"queued", "running", "returned", "raised"}
        /\ pc \notin {"archive", "link"}
        /\ \A k \in 1..Len(cmds) : cmds[k].prog \notin {"ar", "g++"}

\* C24: in build.py the executables are linked one at a time in declared
\* order; a failed link is the last command of the run, which exits with
\* its status; "Build successful" is printed only when every executable
\* linked.
C24_LinkFailFast ==
    script = "build.py" =>
        /\ Len(LinkCmds) <= Len(main_objects)
        /\ \A e \in 1..Len(LinkCmds) :
              /\ LinkCmds[e].args[1] = ObjArg(main_objects[e])
              /\ LinkCmds[e].rc # 0 =>
                    /\ e = Len(LinkCmds)
                    /\ cmds[Len(cmds)] = LinkCmds[e]
                    /\ pc = "exited"
                    /\ exit_code = LinkCmds[e].rc
        /\ (\E k \in 1..Len(printed) : printed[k][1] = "Build successful") =>
              /\ Len(LinkCmds) = Len(main_sources)
              /\ \A e \in 1..Len(LinkCmds) : LinkCmds[e].rc = 0

\* The link of the first executable of build.py failed with status 2: the
\* second was never linked and the run has exited with 2.
C24_Witness ==
    /\ script = "build.py"
    /\ Len(LinkCmds) = 1
    /\ LinkCmds[1].rc = 2
    /\ LinkCmds[1].args[1] = ObjArg(File("motive3d", "o"))
    /\ pc = "exited"
    /\ exit_code = 2

====
